---- MODULE Spec2Model ----
(***************************************************************************)
(* Robodepop: removal of single-sample pops from PCM audio.                *)
(*                                                                         *)
(* The module models src/src/lib.rs:                                       *)
(*   - clean_data         the allocating integer (i32) batch filter,       *)
(*   - clean_data_f       the allocating float (f32) batch filter,         *)
(*   - clean_data_f_inner the in-place float filter over a caller-owned    *)
(*                        scratch buffer,                                  *)
(*   - Gain::initialize / Gain::process, the plugin's handlers, and the    *)
(*     peak meter they maintain.                                           *)
(*                                                                         *)
(* Slices and vectors are functions over 0..n-1, so every index below is   *)
(* the index the source uses.                                              *)
(*                                                                         *)
(* Number domains.  TLC's integers are 32 bits wide, so the source's       *)
(* widths are scaled: i32 is a two's-complement integer of Bits bits and   *)
(* i64 one of 2*Bits bits (the source's 32 and 64).  An f32 is a multiple  *)
(* of 1/One between -F32_MAX and F32_MAX, held as the integer numerator;   *)
(* an f64 holds every f32 exactly and has one more binary digit, so it is  *)
(* held as a count of half units.  Arithmetic that rounds in the source    *)
(* rounds here (to nearest, ties to even).  NaN and the infinities are not *)
(* modelled: samples are finite.                                           *)
(***************************************************************************)
EXTENDS Integers, Sequences, FiniteSets, TLC

VARIABLES
    \* clean_data (integer batch filter)
    ipc,            \* "call": clean_data is about to run; "done": it returned
    idata,          \* `data`, the input slice
    iout,           \* the returned vector
    \* clean_data_f_inner (streaming adapter)
    spc,            \* "idle": no call yet; "returned", "panicked": how the last call ended
    input,          \* the block as the caller passed it to the last call
    data,           \* `data`, the caller's block, as the last call left it
    working_buffer, \* the scratch buffer (Gain::working_buffer)
    accessed,       \* the scratch indices the last call read or wrote
    \* Gain
    peak_meter,              \* Gain::peak_meter
    peak_meter_decay_weight, \* Gain::peak_meter_decay_weight
    editor_open,             \* params.editor_state.is_open()
    max_buffer_size,         \* buffer_config.max_buffer_size, -1 before initialize
    num_samples,             \* samples per channel of the host buffer in process
    num_channels,            \* channels of the host buffer in process
    block_start,             \* offset of the block the loop of process is at
    chan,                    \* channel the inner loop of process is at
    \* peak meter fed with a constant amplitude
    feed_amplitude,          \* the amplitude of every block fed
    feed_count               \* meter updates performed so far

vars == <<ipc, idata, iout, spc, input, data, working_buffer, accessed,
          peak_meter, peak_meter_decay_weight, editor_open, max_buffer_size,
          num_samples, num_channels, block_start, chan,
          feed_amplitude, feed_count>>

batchVars  == <<ipc, idata, iout>>
streamVars == <<spc, input, data, working_buffer, accessed>>
gainVars   == <<peak_meter, peak_meter_decay_weight, editor_open, max_buffer_size,
                num_samples, num_channels, block_start, chan>>
feedVars   == <<feed_amplitude, feed_count>>

(***************************************************************************)
(* Bounds of the model.                                                    *)
(***************************************************************************)
\* width of the sample integer type (the source's i32, 32 bits)
Bits == 8
\* longest input of clean_data
MaxLen == 5
\* longest input of clean_data with a single spike
MaxSpikeLen == 7
\* longest block handed to clean_data_f_inner on its own
MaxBlockLen == 6
\* the f32 value 1.0, in units of the f32 grid
One == 4
\* samples per block of buffer.iter_blocks (the source's 128, scaled as the
\* sample widths are)
BlockSize == 5
\* largest buffer_config.max_buffer_size the host announces, in samples over
\* BlockSize
MaxExtra == 1
\* largest amplitude of a run of constant amplitude, in units of the f32 grid
MaxAmplitude == 8
\* most meter updates in a run of constant amplitude
MaxFeeds == 6

(***************************************************************************)
(* Slices as functions over 0..n-1.                                        *)
(***************************************************************************)
Length(s) == Cardinality(DOMAIN s)

Empty == [i \in {} |-> 0]

\* every slice of length 0..n over the values vals
Slices(vals, n) == UNION {[0..(k - 1) -> vals] : k \in 0..n}

RECURSIVE Pow(_, _)
Pow(b, e) == IF e = 0 THEN 1 ELSE b * Pow(b, e - 1)

Abs(x) == IF x < 0 THEN -x ELSE x

(***************************************************************************)
(* The part of the state a specification leaves untouched.                *)
(***************************************************************************)
StreamIdle ==
    /\ spc = "idle"
    /\ input = Empty
    /\ data = Empty
    /\ working_buffer = Empty
    /\ accessed = {}

GainIdle ==
    /\ peak_meter = 0
    /\ peak_meter_decay_weight = One
    /\ editor_open = FALSE
    /\ max_buffer_size = -1
    /\ num_samples = 0
    /\ num_channels = 0
    /\ block_start = 0
    /\ chan = 0

FeedIdle ==
    /\ feed_amplitude = 0
    /\ feed_count = 0

BatchIdle ==
    /\ ipc = "idle"
    /\ idata = Empty
    /\ iout = Empty

(***************************************************************************)
(* Integer domain: i32 samples, i64 intermediates.                         *)
(***************************************************************************)
I32_MAX == Pow(2, Bits - 1) - 1
I32_MIN == -Pow(2, Bits - 1)

WideBits == 2 * Bits
I64_MAX == Pow(2, WideBits - 1) - 1
I64_MIN == -Pow(2, WideBits - 1)

\* two's-complement wrap of a mathematical integer into lo..hi
WrapTo(x, lo, hi) == ((x - lo) % (hi - lo + 1)) + lo

\* the intermediates held in the sample width instead of the widened one
WrapNarrow(x) == WrapTo(x, I32_MIN, I32_MAX)

\* an i64 result: every `as i64` operand and every i64 operation of clean_data
\* is held in 64 bits
AsI64(x) == WrapTo(x, I64_MIN, I64_MAX)

\* i64 `/ 2`: Rust's integer division truncates toward zero
TruncDiv2(x) == IF x >= 0 THEN x \div 2 ELSE -((-x) \div 2)

Min2(x, y) == IF y < x THEN y ELSE x
Max2(x, y) == IF y > x THEN y ELSE x

\* the min taken over the whole window, the centre included
WindowMinWithCentre(w) == Min2(Min2(Min2(Min2(w[0], w[1]), w[2]), w[3]), w[4])

\* min and max of the four neighbours, the centre excluded
WindowMin(w) == Min2(Min2(Min2(w[0], w[1]), w[3]), w[4])
WindowMax(w) == Max2(Max2(Max2(w[0], w[1]), w[3]), w[4])

\* let distance = (max as i64 - min as i64).abs();
Distance(min, max) == AsI64(Abs(AsI64(AsI64(max) - AsI64(min))))

\* let avg = (max as i64 + min as i64) / 2;
Avg(min, max) == AsI64(TruncDiv2(AsI64(AsI64(max) + AsI64(min))))

\* avg + distance * 2 and avg - distance * 2
UpperBand(avg, distance) == AsI64(avg + AsI64(distance * 2))
LowerBand(avg, distance) == AsI64(avg - AsI64(distance * 2))

\* a band of avg +- distance / 2
IsOutlierHalfBand(point, avg, distance) ==
    \/ AsI64(point) > AsI64(avg + distance \div 2)
    \/ AsI64(point) < AsI64(avg - distance \div 2)

\* point as i64 > (avg + distance * 2) || (point as i64) < (avg - distance * 2)
IsOutlier(point, avg, distance) ==
    \/ AsI64(point) > UpperBand(avg, distance)
    \/ AsI64(point) < LowerBand(avg, distance)

InI32(x) == I32_MIN <= x /\ x <= I32_MAX

\* avg.try_into().unwrap_or({ if avg > i32::MAX as i64 { i32::MAX } else { i32::MIN } })
Narrow(avg) ==
    IF InI32(avg) THEN avg
    ELSE IF avg > I32_MAX THEN I32_MAX ELSE I32_MIN

\* the closure of map_windows in clean_data, on the window w = [a, b, c, d, e]
Evaluate(w) ==
    LET point    == w[2]
        min      == WindowMin(w)
        max      == WindowMax(w)
        distance == Distance(min, max)
        avg      == Avg(min, max)
    IN  IF IsOutlier(point, avg, distance) THEN Narrow(avg) ELSE point

\* data_copy: hi, lo, the data, hi, lo
Pad(s, hi, lo) ==
    [i \in 0..(Length(s) + 3) |->
        IF i = 0 \/ i = Length(s) + 2 THEN hi
        ELSE IF i = 1 \/ i = Length(s) + 3 THEN lo
        ELSE s[i - 2]]

\* the i-th window of map_windows: padded[i .. i+5]
WindowAt(padded, i) == [j \in 0..4 |-> padded[i + j]]

\* pub fn clean_data(data: &[i32]) -> Vec<i32>
clean_data(s) ==
    LET data_copy == Pad(s, I32_MAX, I32_MIN)
    IN  [i \in 0..(Length(s) - 1) |-> Evaluate(WindowAt(data_copy, i))]

(***************************************************************************)
(* Float domain: f32 samples, f64 intermediates.                           *)
(***************************************************************************)
\* f32::MAX and f32::MIN (the most negative finite f32)
F32_MAX == Pow(2, Bits)
F32_MIN == -F32_MAX

\* p / q rounded to the nearest integer, ties to the even one (q > 0)
RoundDiv(p, q) ==
    LET fl  == p \div q
        rem == p % q
    IN  IF 2 * rem < q THEN fl
        ELSE IF 2 * rem > q THEN fl + 1
        ELSE IF fl % 2 = 0 THEN fl ELSE fl + 1

\* `x as f64`: exact; an f64 is a count of half units of the f32 grid
AsF64(x) == x + x

\* `x as f32`: rounds to the nearest f32
AsF32(h) == RoundDiv(h, 2)

\* f64 `/ 2.0`
HalveF64(h) == RoundDiv(h, 2)

\* the closure of map_windows in clean_data_f, and the body of the second
\* loop of clean_data_f_inner, on the window w = [a, b, c, d, e]
EvaluateF(w) ==
    LET point    == w[2]
        min      == WindowMin(w)
        max      == WindowMax(w)
        distance == Abs(AsF64(max) - AsF64(min))
        avg      == HalveF64(AsF64(max) + AsF64(min))
    IN  IF \/ AsF64(point) > avg + distance * 2
           \/ AsF64(point) < avg - distance * 2
        THEN AsF32(avg)
        ELSE point

\* fn clean_data_f(data: &[f32]) -> Vec<f32>
clean_data_f(s) ==
    LET data_copy == Pad(s, F32_MAX, F32_MIN)
    IN  [i \in 0..(Length(s) - 1) |-> EvaluateF(WindowAt(data_copy, i))]

(***************************************************************************)
(* clean_data_f_inner.  A call is run on the record                        *)
(*   [data, wb, panicked, accessed]                                        *)
(* of the caller's block, the scratch buffer, whether a slice index failed *)
(* its bounds check (the call unwinds there), and the scratch indices      *)
(* read or written.                                                        *)
(***************************************************************************)
\* the bounds check of a slice index
InBounds(i, buf) == 0 <= i /\ i < Length(buf)

\* a store that drops a write outside the buffer instead of failing
StoreLenient(m, i, v) ==
    IF m.panicked \/ ~InBounds(i, m.wb) THEN m
    ELSE [m EXCEPT !.wb[i] = v, !.accessed = @ \cup {i}]

\* working_buffer[i] = v
Store(m, i, v) ==
    IF m.panicked THEN m
    ELSE IF InBounds(i, m.wb)
         THEN [m EXCEPT !.wb[i] = v, !.accessed = @ \cup {i}]
         ELSE [m EXCEPT !.panicked = TRUE]

\* working_buffer[0] = f32::MAX; working_buffer[1] = f32::MIN;
HeadSentinels(m) == Store(Store(m, 0, F32_MAX), 1, F32_MIN)

\* for i in 0..data.len() { working_buffer[i + 2] = data[i]; }
RECURSIVE CopyLoop(_, _)
CopyLoop(m, i) ==
    IF i >= Length(m.data) \/ m.panicked THEN m
    ELSE CopyLoop(Store(m, i + 2, m.data[i]), i + 1)

\* the trailing sentinels left out: the window of the last samples reads
\* what the scratch buffer held before
NoTailSentinels(m) == m

\* working_buffer[data.len() + 2] = f32::MAX;
\* working_buffer[data.len() + 3] = f32::MIN;
TailSentinels(m) ==
    Store(Store(m, Length(m.data) + 2, F32_MAX), Length(m.data) + 3, F32_MIN)

\* the second loop: read working_buffer[i] .. working_buffer[i + 4], write
\* data[i]
RECURSIVE WindowLoop(_, _)
WindowLoop(m, i) ==
    IF i >= Length(m.data) \/ m.panicked THEN m
    ELSE IF \A j \in i..(i + 4) : InBounds(j, m.wb)
         THEN WindowLoop([m EXCEPT !.data[i] = EvaluateF(WindowAt(m.wb, i)),
                                   !.accessed = @ \cup (i..(i + 4))],
                         i + 1)
         ELSE [m EXCEPT !.panicked = TRUE,
                        !.accessed = @ \cup {j \in i..(i + 4) : InBounds(j, m.wb)}]

\* fn clean_data_f_inner(data: &mut [f32], working_buffer: &mut [f32])
clean_data_f_inner(block, scratch) ==
    LET m0 == [data |-> block, wb |-> scratch, panicked |-> FALSE, accessed |-> {}]
    IN  WindowLoop(TailSentinels(CopyLoop(HeadSentinels(m0), 0)), 0)

\* the f32 samples blocks are drawn from: silence and full scale
FloatVals == {0, One}

\* a scratch buffer as vec![0.0; n] allocates it
Zeros(n) == [i \in 0..(n - 1) |-> 0]

\* the longest scratch buffer of a caller of clean_data_f_inner
MaxScratch == MaxBlockLen + 4

\* a caller owns a scratch buffer of some length and has not called yet
InitStream ==
    /\ spc = "idle"
    /\ input = Empty
    /\ data = Empty
    /\ working_buffer \in {Zeros(n) : n \in 0..MaxScratch}
    /\ accessed = {}
    /\ BatchIdle /\ GainIdle /\ FeedIdle

\* clean_data_f_inner(block, &mut working_buffer), on the scratch buffer as
\* the call before left it
CallInner ==
    /\ spc # "panicked"
    /\ \E block \in Slices(FloatVals, MaxBlockLen) :
          \E m \in {clean_data_f_inner(block, working_buffer)} :
              /\ input' = block
              /\ data' = m.data
              /\ working_buffer' = m.wb
              /\ accessed' = m.accessed
              /\ spc' = IF m.panicked THEN "panicked" ELSE "returned"
    /\ UNCHANGED <<batchVars, gainVars, feedVars>>

NextStream == CallInner

SpecStream == InitStream /\ [][NextStream]_vars

(***************************************************************************)
(* The samples the inputs are drawn from: the extremes of i32, their       *)
(* neighbours, and the values around zero.                                 *)
(***************************************************************************)
SampleVals == {I32_MIN, I32_MIN + 1, -1, 0, 1, I32_MAX - 1, I32_MAX}

\* the sequence that is constantly v but for x[i] = s
SpikeSeq(n, v, s, i) == [j \in 0..(n - 1) |-> IF j = i THEN s ELSE v]

\* a caller (bin.rs main, the tests) holds a decoded sample sequence
InitBatch ==
    /\ ipc = "call"
    /\ idata \in Slices(SampleVals, MaxLen)
    /\ iout = Empty
    /\ StreamIdle /\ GainIdle /\ FeedIdle

\* the caller holds a flat signal with one spike away from the boundary
InitSpike ==
    /\ ipc = "call"
    /\ \E n \in 5..MaxSpikeLen, i \in 2..(MaxSpikeLen - 3), v \in SampleVals, s \in SampleVals :
          /\ i <= n - 3
          /\ s # v
          /\ idata = SpikeSeq(n, v, s, i)
    /\ iout = Empty
    /\ StreamIdle /\ GainIdle /\ FeedIdle

\* let cleaned = clean_data(&all_data);
CleanData ==
    /\ ipc = "call"
    /\ iout' = clean_data(idata)
    /\ ipc' = "done"
    /\ UNCHANGED <<idata, streamVars, gainVars, feedVars>>

NextBatch == CleanData

SpecBatch == InitBatch /\ [][NextBatch]_vars
SpecSpike == InitSpike /\ [][NextBatch]_vars

(***************************************************************************)
(* Gain: the plugin.                                                       *)
(***************************************************************************)
\* util::MINUS_INFINITY_DB, nih_plug's -100.0
MINUS_INFINITY_DB == -100 * One

\* the slack of the scratch buffer over max_buffer_size
ScratchSlack == 10

\* f32 product, rounded to the f32 grid
Mul32(x, y) == RoundDiv(x * y, One)

\* channel.iter().sum(): f32 sum of the samples, in order
RECURSIVE SumFrom(_, _)
SumFrom(channel, i) ==
    IF i >= Length(channel) THEN 0 ELSE channel[i] + SumFrom(channel, i + 1)

\* let mut amplitude: f32 = channel.iter().sum();
\* amplitude = (amplitude / num_samples as f32).abs();
AmplitudeOf(channel) == Abs(RoundDiv(SumFrom(channel, 0), Length(channel)))

\* the smoothing applied to every amplitude, a louder one too
MeterUpdateNoAttack(current_peak_meter, amplitude, weight) ==
    Mul32(current_peak_meter, weight) + Mul32(amplitude, One - weight)

\* let new_peak_meter = if amplitude > current_peak_meter { amplitude } else { .. };
MeterUpdate(current_peak_meter, amplitude, weight) ==
    IF amplitude > current_peak_meter
    THEN amplitude
    ELSE Mul32(current_peak_meter, weight) + Mul32(amplitude, One - weight)

\* the meter updated whether or not the editor is open
NextPeakMeterUngated(current_peak_meter, channel, weight, is_open) ==
    MeterUpdate(current_peak_meter, AmplitudeOf(channel), weight)

\* if self.params.editor_state.is_open() { .. self.peak_meter.store(new_peak_meter, ..) }
NextPeakMeter(current_peak_meter, channel, weight, is_open) ==
    IF is_open
    THEN MeterUpdate(current_peak_meter, AmplitudeOf(channel), weight)
    ELSE current_peak_meter

\* a scratch buffer of max_buffer_size samples, without the slack
ScratchLenNoSlack(size) == size

\* buffer_config.max_buffer_size as usize + 10
ScratchLen(size) == size + ScratchSlack

\* 0.25^(1 / (sample_rate * 0.150)) as f32 lies strictly between 0 and 1:
\* the fastest and the slowest decay of the grid
DecayWeights == {1, One - 1}

\* the samples a host hands to process
AudioVals == {-One, One}

MaxBufferSize == BlockSize + MaxExtra

\* the buffer sizes a host announces
BufferSizes == {0, BlockSize, MaxBufferSize}

\* process is inside its loops, at channel chan of the block at block_start
InProcess == chan < num_channels /\ block_start < num_samples

\* the length of the block buffer.iter_blocks(128) yields at offset start
BlockLenAt(start) == Min2(BlockSize, num_samples - start)

\* Gain::default()
Init ==
    /\ peak_meter = MINUS_INFINITY_DB
    /\ peak_meter_decay_weight = One
    /\ working_buffer = Empty
    /\ editor_open = FALSE
    /\ max_buffer_size = -1
    /\ num_samples = 0
    /\ num_channels = 0
    /\ block_start = 0
    /\ chan = 0
    /\ spc = "idle"
    /\ input = Empty
    /\ data = Empty
    /\ accessed = {}
    /\ BatchIdle /\ FeedIdle

\* fn initialize(&mut self, .., buffer_config, ..): the host calls it between
\* process calls
Initialize ==
    /\ spc # "panicked"
    /\ ~InProcess
    /\ \E size \in BufferSizes, weight \in DecayWeights :
          /\ peak_meter_decay_weight' = weight
          /\ working_buffer' = Zeros(ScratchLen(size))
          /\ max_buffer_size' = size
    /\ spc' = "idle"
    /\ input' = Empty
    /\ data' = Empty
    /\ accessed' = {}
    /\ UNCHANGED <<peak_meter, editor_open, num_samples, num_channels,
                   block_start, chan, batchVars, feedVars>>

\* the host calls process with a buffer of an announced layout (one or two
\* channels) and at most max_buffer_size samples
Process ==
    /\ spc # "panicked"
    /\ ~InProcess
    /\ max_buffer_size >= 0
    /\ \E n \in BufferSizes, channels \in {1, 2} :
          /\ n <= max_buffer_size
          /\ num_samples' = n
          /\ num_channels' = channels
    /\ block_start' = 0
    /\ chan' = 0
    /\ spc' = "idle"
    /\ input' = Empty
    /\ data' = Empty
    /\ accessed' = {}
    /\ UNCHANGED <<peak_meter, peak_meter_decay_weight, working_buffer,
                   editor_open, max_buffer_size, batchVars, feedVars>>

\* one pass of `for channel in block_channels { .. }`, on the samples the
\* host put in that channel of the block
ProcessChannel ==
    /\ spc # "panicked"
    /\ InProcess
    /\ \E channel \in [0..(BlockLenAt(block_start) - 1) -> AudioVals] :
       \E m \in {clean_data_f_inner(channel, working_buffer)} :
          /\ input' = channel
          /\ data' = m.data
          /\ working_buffer' = m.wb
          /\ accessed' = m.accessed
          /\ IF m.panicked
             THEN /\ spc' = "panicked"
                  /\ UNCHANGED <<peak_meter, block_start, chan>>
             ELSE /\ spc' = "returned"
                  /\ peak_meter' = NextPeakMeter(peak_meter, m.data,
                                                 peak_meter_decay_weight, editor_open)
                  /\ IF chan + 1 < num_channels
                     THEN chan' = chan + 1 /\ block_start' = block_start
                     ELSE chan' = 0 /\ block_start' = block_start + BlockSize
    /\ UNCHANGED <<peak_meter_decay_weight, editor_open, max_buffer_size,
                   num_samples, num_channels, batchVars, feedVars>>

\* the GUI thread opens the editor
OpenEditor ==
    /\ spc # "panicked"
    /\ ~editor_open
    /\ editor_open' = TRUE
    /\ UNCHANGED <<peak_meter, peak_meter_decay_weight, working_buffer,
                   max_buffer_size, num_samples, num_channels, block_start, chan,
                   spc, input, data, accessed, batchVars, feedVars>>

\* the GUI thread closes the editor
CloseEditor ==
    /\ spc # "panicked"
    /\ editor_open
    /\ editor_open' = FALSE
    /\ UNCHANGED <<peak_meter, peak_meter_decay_weight, working_buffer,
                   max_buffer_size, num_samples, num_channels, block_start, chan,
                   spc, input, data, accessed, batchVars, feedVars>>

Next ==
    \/ Initialize
    \/ Process
    \/ ProcessChannel
    \/ OpenEditor
    \/ CloseEditor

Spec == Init /\ [][Next]_vars

(***************************************************************************)
(* The peak meter fed blocks of one constant amplitude, the editor open,   *)
(* from a meter value of 0.                                                *)
(***************************************************************************)
InitMeter ==
    /\ peak_meter = 0
    /\ peak_meter_decay_weight \in DecayWeights
    /\ editor_open = TRUE
    /\ feed_amplitude \in 1..MaxAmplitude
    /\ feed_count = 0
    /\ working_buffer = Empty
    /\ max_buffer_size = -1
    /\ num_samples = 0
    /\ num_channels = 0
    /\ block_start = 0
    /\ chan = 0
    /\ spc = "idle"
    /\ input = Empty
    /\ data = Empty
    /\ accessed = {}
    /\ BatchIdle

\* the meter update of one block of amplitude feed_amplitude
Feed ==
    /\ feed_count < MaxFeeds
    /\ peak_meter' = MeterUpdate(peak_meter, feed_amplitude, peak_meter_decay_weight)
    /\ feed_count' = feed_count + 1
    /\ UNCHANGED <<peak_meter_decay_weight, editor_open, feed_amplitude,
                   working_buffer, max_buffer_size, num_samples, num_channels,
                   block_start, chan, spc, input, data, accessed, batchVars>>

NextMeter == Feed

SpecMeter == InitMeter /\ [][NextMeter]_vars

(***************************************************************************)
(* Properties of clean_data.                                               *)
(***************************************************************************)
\* the first two and the last two positions of a slice of length n
BoundaryPositions(n) == {0, 1, n - 2, n - 1} \cap (0..(n - 1))

\* the sentinel-padded window of position i of s
PaddedWindow(s, i) == WindowAt(Pad(s, I32_MAX, I32_MIN), i)

\* C1: clean_data never replaces positions 0, 1, n-2 and n-1 of a non-empty
\* input, whatever the sample values: output[i] = x[i] there.
C1_BoundaryNeverReplaced ==
    ipc = "done" =>
        \A i \in BoundaryPositions(Length(idata)) : iout[i] = idata[i]

\* C4: a sequence that is constantly v but for one spike s # v at an index
\* 2 <= i <= n-3 (n >= 5) is returned as n copies of v: the spike is replaced
\* whatever its size and no other sample changes.
C4_SpikeRemoved ==
    ipc = "done" => iout = [j \in DOMAIN idata |-> idata[0]]

C4_Witness ==
    /\ ipc = "done"
    /\ Length(idata) >= 6
    /\ idata[0] = 0
    /\ idata[3] = 1
    /\ iout[3] = 0

\* the centre of w lies within avg - 2*distance .. avg + 2*distance of its
\* four neighbours, in unbounded arithmetic
InBand(w) ==
    LET min      == WindowMin(w)
        max      == WindowMax(w)
        distance == max - min
        avg      == TruncDiv2(max + min)
    IN  avg - 2 * distance <= w[2] /\ w[2] <= avg + 2 * distance

AllInBand(s) == \A i \in DOMAIN s : InBand(PaddedWindow(s, i))

Monotonic(s) ==
    \/ \A i, j \in DOMAIN s : i <= j => s[i] <= s[j]
    \/ \A i, j \in DOMAIN s : i <= j => s[i] >= s[j]

\* C5: clean_data(x) = x when every sample lies within avg +- 2*distance of
\* its own sentinel-padded window; in particular every monotonic sequence is
\* returned unchanged.
C5_FixedPoint ==
    ipc = "done" =>
        /\ AllInBand(idata) => iout = idata
        /\ Monotonic(idata) => iout = idata

C5_Witness ==
    /\ ipc = "done"
    /\ Length(idata) >= 5
    /\ Monotonic(idata)
    /\ idata[0] = I32_MIN
    /\ idata[2] = 0
    /\ idata[4] = I32_MAX
    /\ iout = idata

\* C9: in every window clean_data evaluates, distance, avg, avg + 2*distance
\* and avg - 2*distance are the mathematical values (nothing overflows the
\* widened type), avg lies between the neighbours' min and max and so in the
\* sample range (the saturating fallback is never taken), and a replaced
\* sample is exactly avg.
C9_NoWrap ==
    ipc = "done" =>
        \A i \in DOMAIN idata :
            LET w        == PaddedWindow(idata, i)
                min      == WindowMin(w)
                max      == WindowMax(w)
                distance == Distance(min, max)
                avg      == Avg(min, max)
            IN  /\ distance = max - min
                /\ avg = TruncDiv2(max + min)
                /\ UpperBand(avg, distance) = avg + 2 * distance
                /\ LowerBand(avg, distance) = avg - 2 * distance
                /\ min <= avg /\ avg <= max
                /\ InI32(avg)
                /\ Narrow(avg) = avg
                /\ IsOutlier(w[2], avg, distance) => iout[i] = avg
                /\ InI32(iout[i])

C9_Witness ==
    /\ ipc = "done"
    /\ Length(idata) = 5
    /\ idata[2] = I32_MIN
    /\ \A j \in {0, 1, 3, 4} : idata[j] = I32_MAX
    /\ iout[2] = I32_MAX

(***************************************************************************)
(* Properties of clean_data_f_inner.                                       *)
(***************************************************************************)
\* C2: whatever earlier calls left in the reused scratch buffer, a call whose
\* scratch buffer holds at least block length + 4 samples returns, and leaves
\* in the block what clean_data_f returns for that block alone.
C2_StreamingEqualsBatch ==
    (spc # "idle" /\ Length(working_buffer) >= Length(input) + 4) =>
        /\ spc = "returned"
        /\ data = clean_data_f(input)

\* a call that replaced a sample, on a scratch buffer still holding beyond
\* its window the sentinel of an earlier, longer block
C2_Witness ==
    /\ spc = "returned"
    /\ data # input
    /\ \E j \in DOMAIN working_buffer :
          j > Length(input) + 3 /\ working_buffer[j] = F32_MIN

\* C3: a call with a scratch buffer shorter than block length + 4 panics,
\* touches no index outside the scratch buffer, and leaves every sample of
\* the caller's block as it was.
C3_ShortScratchPanics ==
    spc # "idle" =>
        /\ accessed \subseteq DOMAIN working_buffer
        /\ Length(working_buffer) < Length(input) + 4 =>
              spc = "panicked" /\ data = input

\* the scratch buffer is one short, and the block holds a sample the filter
\* would have replaced
C3_Witness ==
    /\ spc = "panicked"
    /\ Length(working_buffer) = Length(input) + 3
    /\ clean_data_f(input) # input
    /\ data = input

(***************************************************************************)
(* Properties of Gain.                                                     *)
(***************************************************************************)
\* the step is one pass of the channel loop of process that returned
ChannelPass ==
    /\ InProcess
    /\ <<block_start, chan>>' # <<block_start, chan>>

\* the mean of the absolute values of the samples of a block
MeanAbs(channel) ==
    RoundDiv(SumFrom([i \in DOMAIN channel |-> Abs(channel[i])], 0), Length(channel))

\* C6: in every meter update of process, the amplitude fed to the meter is
\* the mean of the absolute values of the just-cleaned block.
C6_AmplitudeIsMeanAbs ==
    [][(ChannelPass /\ editor_open) =>
          peak_meter' = MeterUpdate(peak_meter, MeanAbs(data'), peak_meter_decay_weight)]_vars

\* C8: a block processed while the editor is closed leaves the peak meter as
\* it was, and is still cleaned in place.
C8_MeterOnlyWhileOpen ==
    [][(ChannelPass /\ ~editor_open) =>
          /\ peak_meter' = peak_meter
          /\ spc' = "returned"
          /\ data' = clean_data_f(input')]_vars

\* a block was cleaned (a sample replaced) with the editor closed, and the
\* meter is still at its initial value
C8_Witness ==
    /\ spc = "returned"
    /\ ~editor_open
    /\ data # input
    /\ peak_meter = MINUS_INFINITY_DB

\* C10: the scratch buffer is empty before the first initialize; afterwards
\* it holds max_buffer_size + 10 samples, every block process hands to the
\* filter is at most 128 samples and at most the buffer, the scratch buffer
\* holds at least block length + 4, and no call fails.
C10_ScratchFits ==
    /\ max_buffer_size = -1 => Length(working_buffer) = 0
    /\ max_buffer_size >= 0 =>
          /\ Length(working_buffer) = max_buffer_size + ScratchSlack
          /\ spc # "panicked"
          /\ InProcess =>
                /\ BlockLenAt(block_start) <= BlockSize
                /\ BlockLenAt(block_start) <= num_samples
                /\ Length(working_buffer) >= BlockLenAt(block_start) + 4

\* process is at the second channel of the second block of a buffer as long
\* as the largest the host announces
C10_Witness ==
    /\ InProcess
    /\ spc = "returned"
    /\ num_samples = max_buffer_size
    /\ block_start > 0
    /\ chan = 1
    /\ Length(working_buffer) = MaxBufferSize + ScratchSlack

(***************************************************************************)
(* Properties of the peak meter.                                           *)
(***************************************************************************)
\* C7: from a meter value of 0, after k >= 1 updates with the constant
\* amplitude A > 0 the meter is A * (1 - decayWeight^k); stated on the f32
\* grid, within one grid unit per update.
C7_GeometricRise ==
    feed_count >= 1 =>
        Abs(peak_meter * Pow(One, feed_count)
            - feed_amplitude * (Pow(One, feed_count)
                                - Pow(peak_meter_decay_weight, feed_count)))
          <= feed_count * Pow(One, feed_count)

\* C7 as the code has it: the first update sets the meter to A, and every
\* later one leaves it at A up to the rounding of
\* currentPeak * decayWeight + A * (1 - decayWeight).
C7_ImmediateAttack ==
    /\ feed_count = 1 => peak_meter = feed_amplitude
    /\ feed_count >= 1 => Abs(peak_meter - feed_amplitude) <= 1

C7_Witness ==
    /\ feed_count = MaxFeeds
    /\ feed_amplitude = 2 * One
    /\ peak_meter_decay_weight = One - 1
    /\ peak_meter = feed_amplitude

====
